---- MODULE Spec2Model ----
(***************************************************************************)
(* Verification model of YODASAM/PythonPractise.                           *)
(*                                                                         *)
(*   - generate_primes_rns and main      (src/Eric_RNS_SkipEven.py)        *)
(*   - the module-level sieve loop       (src/Eric_RNS.py)                 *)
(*   - fizzbuzz                          (src/parametrised_tdd/hello.py)   *)
(*                                                                         *)
(* Strings that the program builds character by character (str(n)) are     *)
(* sequences of one-character strings, so that a conversion is computed    *)
(* and not assumed.                                                        *)
(***************************************************************************)
EXTENDS Integers, Sequences, FiniteSets, TLC

VARIABLES
    \* ---- generate_primes_rns: arguments, locals, position, result
    pc,                \* "idle" | "loop" | "advance" | "wrap" | "activate" | "test" | "append" | "finish" | "done"
    count,
    collect_stats,
    primes,
    active_moduli,
    digits,
    pending_primes,
    pending_squares,
    next_square_idx,
    square_multiplies,
    digit_increments,
    digit_wraps,
    zero_checks,
    n,
    outcome,           \* "none" while running, "return" after a return statement
    ret_primes,
    ret_stats,
    \* ---- main(): position, parsed arguments, exit
    mpc,               \* "idle" | "check" | "engine" | "exited"
    number,
    args_stats,
    exit_status,
    message,
    \* ---- callers' record of completed generate_primes_rns calls
    returned,
    \* ---- Eric_RNS.py (module-level script)
    npc,               \* "idle" | "while" | "for" | "body" | "after" | "end"
    nv_number,
    nv_primes,
    nv_digits,
    num_primes,
    last,
    max_prime,
    trial,
    next_trial,
    num_of_multiplies,
    num_of_increments,
    \* ---- fizzbuzz
    fpc,               \* "idle" | "call" | "ret"
    fn,
    fresult,
    \* ---- greet
    gpc,               \* "idle" | "call" | "ret"
    gname,
    gresult,
    gerror,            \* "none" | "EmptyNameError"
    \* ---- Bank_Account_Error_Handling.py: one BankAccount and its last call
    bpc,               \* "idle" | "open" | "failed"
    owner,
    balance,
    initial_balance,   \* the argument of __init__
    bop,               \* "none" | "__init__" | "deposit" | "withdraw"
    bamount,           \* the argument of the last deposit or withdraw
    berror             \* "none" or the name of the exception the last call raised

engineVars == <<pc, count, collect_stats, primes, active_moduli, digits,
                pending_primes, pending_squares, next_square_idx,
                square_multiplies, digit_increments, digit_wraps, zero_checks,
                n, outcome, ret_primes, ret_stats>>
mainVars == <<mpc, number, args_stats, exit_status, message>>
naiveVars == <<npc, nv_number, nv_primes, nv_digits, num_primes, last,
               max_prime, trial, next_trial, num_of_multiplies,
               num_of_increments>>
fizzVars == <<fpc, fn, fresult>>
greetVars == <<gpc, gname, gresult, gerror>>
bankVars == <<bpc, owner, balance, initial_balance, bop, bamount, berror>>
otherVars == <<mainVars, returned, naiveVars, fizzVars, greetVars, bankVars>>
vars == <<engineVars, mainVars, returned, naiveVars, fizzVars, greetVars, bankVars>>

-----------------------------------------------------------------------------
(* Bounds of the model.                                                    *)

\* largest ordinary count handed to generate_primes_rns / main
MaxCount == 20
\* the scan cursor n is not advanced beyond MaxN (cuts the runs of huge counts)
MaxN == 80
\* counts used when several calls are made one after another
MaxCallCount == 6
\* counts for which the two sieve variants are run side by side
MaxCrossCount == 12
\* largest |n| handed to fizzbuzz
MaxFizz == 60

\* longest name handed to greet
MaxNameLen == 3

\* largest balance an account is taken to, largest amount of one call and
\* largest initial balance
MaxBalance == 6
MaxAmount == 3
MaxInitial == 3

(* Program constants.                                                      *)
step == 2
Ceiling == 1000000000

Counts == (-2 .. MaxCount) \cup {Ceiling, Ceiling + 1}
CallCounts == -1 .. MaxCallCount
CrossCounts == 1 .. MaxCrossCount
FizzInputs == (0 - MaxFizz) .. MaxFizz

\* the characters names are made of: lower case and upper case letters
NameChars == {"a", "b", "A", "B"}
Names == UNION {[1 .. k -> NameChars] : k \in 0 .. MaxNameLen}

-----------------------------------------------------------------------------
(* Stats dictionaries                                                      *)

EmptyStats == [k \in {} |-> 0]

\* variant: count == 1 returning an empty dict
NoStats == [k \in {} |-> 0]

ZeroStats == [square_multiplies |-> 0, digit_increments |-> 0,
              digit_wraps |-> 0, zero_checks |-> 0]

FullStats == [total_primes_found |-> Len(primes),
              square_multiplies |-> square_multiplies,
              digit_increments |-> digit_increments,
              digit_wraps |-> digit_wraps,
              zero_checks |-> zero_checks,
              active_moduli_final |-> Len(active_moduli),
              max_prime |-> primes[Len(primes)]]

-----------------------------------------------------------------------------
(* generate_primes_rns: the vector operations                              *)

\* variant: digits advanced by 1 while the cursor advances by step
AdvanceDigitsByOne(d) == [k \in 1 .. Len(d) |-> d[k] + 1]

\* digits += step
AdvanceDigits(d) == [k \in 1 .. Len(d) |-> d[k] + step]

\* variant: wrap only when the digit exceeds the modulus
WrapMaskStrict(d, m) == [k \in 1 .. Len(d) |-> d[k] > m[k]]

\* wrap_mask = digits >= active_moduli
WrapMask(d, m) == [k \in 1 .. Len(d) |-> d[k] >= m[k]]

\* variant: digits = digits[wrap_mask] - active_moduli[wrap_mask], which
\* keeps the wrapped entries only
WrapDigitsSelected(d, m) ==
    LET sel[k \in 1 .. (Len(d) + 1)] ==
            IF k > Len(d) THEN <<>>
            ELSE (IF d[k] >= m[k] THEN <<d[k] - m[k]>> ELSE <<>>) \o sel[k + 1]
    IN  sel[1]

\* digits[wrap_mask] -= active_moduli[wrap_mask]
WrapDigits(d, m) ==
    [k \in 1 .. Len(d) |-> IF WrapMask(d, m)[k] THEN d[k] - m[k] ELSE d[k]]

\* variant: wrap_mask.size in the place of the number of wrapped entries
CountAll(mask) == Len(mask)

\* np.count_nonzero(wrap_mask)
CountNonzero(mask) == Cardinality({k \in 1 .. Len(mask) : mask[k]})

\* np.any(wrap_mask)
AnyTrue(mask) == \E k \in 1 .. Len(mask) : mask[k]

\* variant: only the first digit is looked at
AnyZeroFirst(d) == Len(d) > 0 /\ d[1] = 0

\* digits.size and np.any(digits == 0)
AnyZero(d) == Len(d) > 0 /\ \E k \in 1 .. Len(d) : d[k] = 0

\* variant: count = 0 let through
BelowZero(c) == c < 0

\* variant: the ceiling of main() tested in the engine as well
BelowOneOrAboveCeiling(c) == c < 1 \/ c > Ceiling

\* count < 1
BelowOne(c) == c < 1

\* variant: the sequence kept from the previous call
SharedPrimes == IF Len(primes) > 0 THEN primes ELSE <<2>>

\* primes = [2]
SeedPrimes == <<2>>

\* variant: the cursor kept from the previous call
SharedN == IF n > 1 THEN n ELSE 1

\* n = 1
SeedN == 1

\* variant: the new digit starts at the step
ActivatedDigitStep == step

\* digits = np.append(digits, 0)
ActivatedDigit == 0

\* variant: the value taken from pending_squares in the place of pending_primes
ActivatedSquare == pending_squares[next_square_idx + 1]

\* p = pending_primes[next_square_idx]   (0-based index in the source)
ActivatedModulus == pending_primes[next_square_idx + 1]

\* variant: n * 2 in the place of n * n
SquareDoubled(x) == x * 2

\* n * n
Square(x) == x * x

\* variant: the loop runs while len(primes) <= count
MorePrimesWantedInclusive(p, c) == Len(p) <= c

\* len(primes) < count
MorePrimesWanted(p, c) == Len(p) < c

\* variant: the square is tested one candidate ahead
SquareReachedEarly(idx, sq, cand) == idx < Len(sq) /\ sq[idx + 1] = cand + step

\* pending_squares[next_square_idx] == n   (0-based index in the source)
SquareReached(idx, sq, cand) == idx < Len(sq) /\ sq[idx + 1] = cand

-----------------------------------------------------------------------------
(* generate_primes_rns: the steps                                          *)

\* a return at line 27 or line 32 happens before the scan's locals exist
NoScanLocals ==
    /\ active_moduli' = <<>>
    /\ digits' = <<>>
    /\ pending_primes' = <<>>
    /\ pending_squares' = <<>>
    /\ next_square_idx' = 0
    /\ square_multiplies' = 0
    /\ digit_increments' = 0
    /\ digit_wraps' = 0
    /\ zero_checks' = 0
    /\ n' = 0

\* lines 25-52: argument check, seed, early returns, initialisation
Generate(c, cs) ==
    /\ count' = c
    /\ collect_stats' = cs
    /\ IF BelowOne(c)
       THEN /\ pc' = "done"
            /\ outcome' = "return"
            /\ ret_primes' = <<>>
            /\ ret_stats' = EmptyStats
            /\ primes' = <<>>
            /\ NoScanLocals
       ELSE IF c = 1
       THEN /\ primes' = SeedPrimes
            /\ pc' = "done"
            /\ outcome' = "return"
            /\ ret_primes' = primes'
            /\ ret_stats' = ZeroStats
            /\ NoScanLocals
       ELSE /\ primes' = SeedPrimes
            /\ active_moduli' = <<>>
            /\ digits' = <<>>
            /\ pending_primes' = <<>>
            /\ pending_squares' = <<>>
            /\ next_square_idx' = 0
            /\ square_multiplies' = 0
            /\ digit_increments' = 0
            /\ digit_wraps' = 0
            /\ zero_checks' = 0
            /\ n' = SeedN
            /\ pc' = "loop"
            /\ outcome' = "none"
            /\ ret_primes' = <<>>
            /\ ret_stats' = EmptyStats

\* line 54: while len(primes) < count
LoopTest ==
    /\ UNCHANGED otherVars
    /\ pc = "loop"
    /\ pc' = IF MorePrimesWanted(primes, count) THEN "advance" ELSE "finish"
    /\ UNCHANGED <<count, collect_stats, primes, active_moduli, digits,
                   pending_primes, pending_squares, next_square_idx,
                   square_multiplies, digit_increments, digit_wraps,
                   zero_checks, n, outcome, ret_primes, ret_stats>>

\* lines 55-60: n += step; digits += step
Advance ==
    /\ UNCHANGED otherVars
    /\ pc = "advance"
    /\ n + step <= MaxN
    /\ n' = n + step
    /\ IF Len(digits) > 0
       THEN /\ digits' = AdvanceDigits(digits)
            /\ digit_increments' = digit_increments + Len(digits)
       ELSE UNCHANGED <<digits, digit_increments>>
    /\ pc' = "wrap"
    /\ UNCHANGED <<count, collect_stats, primes, active_moduli,
                   pending_primes, pending_squares, next_square_idx,
                   square_multiplies, digit_wraps, zero_checks, outcome,
                   ret_primes, ret_stats>>

\* lines 62-66: one conditional subtraction per index
Wrap ==
    /\ UNCHANGED otherVars
    /\ pc = "wrap"
    /\ IF Len(digits) > 0 /\ AnyTrue(WrapMask(digits, active_moduli))
       THEN /\ digits' = WrapDigits(digits, active_moduli)
            /\ digit_wraps' =
                   digit_wraps + CountNonzero(WrapMask(digits, active_moduli))
       ELSE UNCHANGED <<digits, digit_wraps>>
    /\ pc' = "activate"
    /\ UNCHANGED <<count, collect_stats, primes, active_moduli,
                   pending_primes, pending_squares, next_square_idx,
                   square_multiplies, digit_increments, zero_checks, n,
                   outcome, ret_primes, ret_stats>>

\* lines 71-76: one pass of the activation while loop, or its exit
Activate ==
    /\ UNCHANGED otherVars
    /\ pc = "activate"
    /\ IF SquareReached(next_square_idx, pending_squares, n)
       THEN /\ next_square_idx' = next_square_idx + 1
            /\ active_moduli' = Append(active_moduli, ActivatedModulus)
            /\ digits' = Append(digits, ActivatedDigit)
            /\ pc' = "activate"
       ELSE /\ pc' = "test"
            /\ UNCHANGED <<next_square_idx, active_moduli, digits>>
    /\ UNCHANGED <<count, collect_stats, primes, pending_primes,
                   pending_squares, square_multiplies, digit_increments,
                   digit_wraps, zero_checks, n, outcome, ret_primes,
                   ret_stats>>

\* lines 81-83: zero check; a zero digit means composite (continue)
PrimeTest ==
    /\ UNCHANGED otherVars
    /\ pc = "test"
    /\ zero_checks' = zero_checks + 1
    /\ pc' = IF AnyZero(digits) THEN "loop" ELSE "append"
    /\ UNCHANGED <<count, collect_stats, primes, active_moduli, digits,
                   pending_primes, pending_squares, next_square_idx,
                   square_multiplies, digit_increments, digit_wraps, n,
                   outcome, ret_primes, ret_stats>>

\* lines 86-91: record the prime and schedule its activation at n*n
AppendPrime ==
    /\ UNCHANGED otherVars
    /\ pc = "append"
    /\ primes' = Append(primes, n)
    /\ pending_primes' = Append(pending_primes, n)
    /\ pending_squares' = Append(pending_squares, Square(n))
    /\ square_multiplies' = square_multiplies + 1
    /\ pc' = "loop"
    /\ UNCHANGED <<count, collect_stats, active_moduli, digits,
                   next_square_idx, digit_increments, digit_wraps,
                   zero_checks, n, outcome, ret_primes, ret_stats>>

\* lines 93-105: assemble stats and return
Finish ==
    /\ UNCHANGED otherVars
    /\ pc = "finish"
    /\ ret_primes' = primes
    /\ ret_stats' = IF collect_stats THEN FullStats ELSE EmptyStats
    /\ outcome' = "return"
    /\ pc' = "done"
    /\ UNCHANGED <<count, collect_stats, primes, active_moduli, digits,
                   pending_primes, pending_squares, next_square_idx,
                   square_multiplies, digit_increments, digit_wraps,
                   zero_checks, n>>

-----------------------------------------------------------------------------
(* main()                                                                  *)

\* variant: the bound named in the exit message
OutOfMessageRange(x) == (x < 1) \/ (x > 1000000)

\* (number < 1) or (number > 1_000_000_000)
OutOfRange(x) == (x < 1) \/ (x > Ceiling)

\* sys.exit("...") : the message goes to stderr, the exit status is 1
ExitMessage == "Error: cnt argument should be between 1 and 1,000,000"

\* lines 109-116: parse the arguments
MainParse(x, s) ==
    /\ mpc = "idle" /\ pc = "idle"
    /\ number' = x
    /\ args_stats' = s
    /\ mpc' = "check"
    /\ UNCHANGED <<exit_status, message>>
    /\ UNCHANGED <<engineVars, returned, naiveVars, fizzVars, greetVars, bankVars>>

\* lines 117-118: range check, exit on failure
MainReject ==
    /\ mpc = "check"
    /\ OutOfRange(number)
    /\ mpc' = "exited"
    /\ exit_status' = 1
    /\ message' = ExitMessage
    /\ UNCHANGED <<number, args_stats>>
    /\ UNCHANGED <<engineVars, returned, naiveVars, fizzVars, greetVars, bankVars>>

\* lines 120-123: the engine call
MainCall ==
    /\ mpc = "check"
    /\ ~OutOfRange(number)
    /\ Generate(number, args_stats)
    /\ mpc' = "engine"
    /\ UNCHANGED <<number, args_stats, exit_status, message>>
    /\ UNCHANGED <<returned, naiveVars, fizzVars, greetVars, bankVars>>

\* lines 125-140: output, normal end of the process
MainOutput ==
    /\ mpc = "engine"
    /\ pc = "done"
    /\ mpc' = "exited"
    /\ exit_status' = 0
    /\ UNCHANGED <<number, args_stats, message>>
    /\ UNCHANGED <<engineVars, returned, naiveVars, fizzVars, greetVars, bankVars>>

\* generate_primes_rns called by some other caller than main()
DirectCall(c, cs) ==
    /\ mpc = "idle" /\ pc = "idle"
    /\ Generate(c, cs)
    /\ UNCHANGED <<mainVars, returned, naiveVars, fizzVars, greetVars, bankVars>>

-----------------------------------------------------------------------------

-----------------------------------------------------------------------------
(* A caller that calls generate_primes_rns again and again and keeps what  *)
(* each call returned.                                                     *)

\* the call has returned to its caller
Observe ==
    /\ pc = "done"
    /\ mpc = "idle"
    /\ returned' = returned \cup {<<count, ret_primes>>}
    /\ pc' = "idle"
    /\ UNCHANGED <<count, collect_stats, primes, active_moduli, digits,
                   pending_primes, pending_squares, next_square_idx,
                   square_multiplies, digit_increments, digit_wraps,
                   zero_checks, n, outcome, ret_primes, ret_stats>>
    /\ UNCHANGED <<mainVars, naiveVars, fizzVars, greetVars, bankVars>>

-----------------------------------------------------------------------------
(* Eric_RNS.py: the naive (immediate-activation) script                    *)

\* contains_zero(array)
contains_zero(array) == \E j \in 1 .. Len(array) : array[j] = 0

\* wrap_digits(primes, digits): a digit equal to its modulus becomes 0
wrap_digits(ps, ds) ==
    [i \in 1 .. Len(ds) |-> IF i <= Len(ps) /\ ds[i] = ps[i] THEN 0 ELSE ds[i]]

\* the increment computed and dropped (digits + 1 in place of digits += 1)
IncrementDigitsDropped(ds) == ds

\* digits += 1
IncrementDigits(ds) == [i \in 1 .. Len(ds) |-> ds[i] + 1]

\* range(last + 1 + (last % 2), max_prime, 2): first value and stride
RangeStart(l) == l + 1 + (l % 2)
RangeStride == 2

\* lines 2-4, 18-23: the module-level initialisation, number being the
\* count of primes asked for
NaiveStart(nb) ==
    /\ npc = "idle"
    /\ nv_number' = nb
    /\ nv_primes' = <<2>>
    /\ nv_digits' = <<0>>
    /\ num_of_multiplies' = 0
    /\ num_of_increments' = 0
    /\ num_primes' = 1
    /\ last' = 2
    /\ npc' = "while"
    /\ UNCHANGED <<max_prime, trial, next_trial>>

\* lines 26-31: the while test, the bound of the pass and the range
NaiveWhile ==
    /\ npc = "while"
    /\ IF num_primes < nv_number
       THEN /\ max_prime' = nv_primes[Len(nv_primes)] * nv_primes[Len(nv_primes)]
            /\ num_of_multiplies' = num_of_multiplies + 1
            /\ next_trial' = RangeStart(last)
            /\ npc' = "for"
       ELSE /\ npc' = "end"
            /\ UNCHANGED <<max_prime, num_of_multiplies, next_trial>>
    /\ UNCHANGED <<nv_number, nv_primes, nv_digits, num_primes, last, trial,
                   num_of_increments>>
    /\ UNCHANGED <<engineVars, mainVars, returned, fizzVars, greetVars, bankVars>>

\* line 31: the for statement takes the next value of the range, or ends
NaiveFor ==
    /\ npc = "for"
    /\ IF next_trial < max_prime
       THEN /\ trial' = next_trial
            /\ next_trial' = next_trial + RangeStride
            /\ npc' = "body"
       ELSE /\ npc' = "after"
            /\ UNCHANGED <<trial, next_trial>>
    /\ UNCHANGED <<nv_number, nv_primes, nv_digits, num_primes, last,
                   max_prime, num_of_multiplies, num_of_increments>>
    /\ UNCHANGED <<engineVars, mainVars, returned, fizzVars, greetVars, bankVars>>

\* lines 33-45: increment, wrap, zero test, record, break
NaiveBody ==
    /\ npc = "body"
    /\ num_of_increments' = num_of_increments + Len(nv_digits)
    /\ LET wrapped == wrap_digits(nv_primes, IncrementDigits(nv_digits))
       IN  IF ~contains_zero(wrapped)
           THEN /\ nv_primes' = Append(nv_primes, trial)
                /\ nv_digits' = Append(wrapped, 0)
                /\ num_primes' = num_primes + 1
                /\ npc' = IF num_primes + 1 > nv_number THEN "after" ELSE "for"
           ELSE /\ nv_digits' = wrapped
                /\ npc' = "for"
                /\ UNCHANGED <<nv_primes, num_primes>>
    /\ UNCHANGED <<nv_number, last, max_prime, trial, next_trial,
                   num_of_multiplies>>
    /\ UNCHANGED <<engineVars, mainVars, returned, fizzVars, greetVars, bankVars>>

\* line 46: last = max_prime-1
NaiveAfter ==
    /\ npc = "after"
    /\ last' = max_prime - 1
    /\ npc' = "while"
    /\ UNCHANGED <<nv_number, nv_primes, nv_digits, num_primes, max_prime,
                   trial, next_trial, num_of_multiplies, num_of_increments>>
    /\ UNCHANGED <<engineVars, mainVars, returned, fizzVars, greetVars, bankVars>>

\* the cross-check: the script is run for the count the engine was called with
CrossNaive ==
    /\ pc = "done"
    /\ NaiveStart(count)
    /\ UNCHANGED <<engineVars, mainVars, returned, fizzVars, greetVars, bankVars>>

-----------------------------------------------------------------------------
(* parametrised_tdd/hello.py                                               *)

DigitChar(d) == <<"0", "1", "2", "3", "4", "5", "6", "7", "8", "9">>[d + 1]

\* the decimal digits of a natural number, most significant first
RECURSIVE DecDigits(_)
DecDigits(x) ==
    IF x < 10 THEN <<DigitChar(x)>>
    ELSE Append(DecDigits(x \div 10), DigitChar(x % 10))

\* str(n)
str(x) == IF x < 0 THEN <<"-">> \o DecDigits(-x) ELSE DecDigits(x)

\* variant: the test for 3 placed before the test for 15
fizzbuzz_fizz_first(x) ==
    IF x % 3 = 0 THEN <<"F", "i", "z", "z">>
    ELSE IF x % 15 = 0 THEN <<"F", "i", "z", "z", "B", "u", "z", "z">>
    ELSE IF x % 5 = 0 THEN <<"B", "u", "z", "z">>
    ELSE str(x)

\* fizzbuzz(n)
fizzbuzz(x) ==
    IF x % 15 = 0 THEN <<"F", "i", "z", "z", "B", "u", "z", "z">>
    ELSE IF x % 3 = 0 THEN <<"F", "i", "z", "z">>
    ELSE IF x % 5 = 0 THEN <<"B", "u", "z", "z">>
    ELSE str(x)

FizzCall ==
    /\ fpc = "call"
    /\ fresult' = fizzbuzz(fn)
    /\ fpc' = "ret"
    /\ UNCHANGED fn
    /\ UNCHANGED <<engineVars, mainVars, returned, naiveVars, greetVars, bankVars>>

-----------------------------------------------------------------------------

\* str.upper() and str.lower() on one character
UpperChar(c) == CASE c = "a" -> "A" [] c = "b" -> "B" [] OTHER -> c
LowerChar(c) == CASE c = "A" -> "a" [] c = "B" -> "b" [] OTHER -> c

\* str.capitalize(): first character upper case, all the others lower case
capitalize(nm) ==
    [i \in 1 .. Len(nm) |-> IF i = 1 THEN UpperChar(nm[i]) ELSE LowerChar(nm[i])]

\* GREETING_TEMPLATE.format(name=...)
GreetingTemplate(x) == <<"H", "e", "l", "l", "o", ",", " ">> \o x \o <<"!">>

\* greet(name)
GreetCall ==
    /\ gpc = "call"
    /\ IF Len(gname) = 0
       THEN /\ gerror' = "EmptyNameError"
            /\ gresult' = <<>>
       ELSE /\ gerror' = "none"
            /\ gresult' = GreetingTemplate(capitalize(gname))
    /\ gpc' = "ret"
    /\ UNCHANGED gname
    /\ UNCHANGED <<engineVars, mainVars, returned, naiveVars, fizzVars,
                   bankVars>>

\* class EmptyNameError(ValueError)
IsValueError(e) == e \in {"ValueError", "EmptyNameError"}

-----------------------------------------------------------------------------
(* Bank_Account_Error_Handling.py                                          *)

(* Python values handed to the class: an int, the bool True (an int to     *)
(* isinstance), the float nan (a float to isinstance, for which every      *)
(* ordering comparison is False) and a str.                                *)
PyInt(k) == [kind |-> "int", v |-> k]
PyTrue == [kind |-> "bool", v |-> 1]
NaN == [kind |-> "nan", v |-> 0]
Text == [kind |-> "str", v |-> 0]

\* no object: the attribute does not exist
NoBalance == [kind |-> "none", v |-> 0]

Owners == {"Alice", "Bob"}
InitialBalances == {PyInt(k) : k \in -2 .. MaxInitial} \cup {NaN, Text}
Amounts == {PyInt(k) : k \in -1 .. MaxAmount} \cup {PyTrue, NaN, Text}

\* isinstance(amount, (int, float))
isinstance_number(x) == x.kind \in {"int", "bool", "nan"}

\* x < y, x <= y, x > y on numbers: False whenever an operand is nan
Lt(x, y) == x.kind # "nan" /\ y.kind # "nan" /\ x.v < y.v
LessEq(x, y) == x.kind # "nan" /\ y.kind # "nan" /\ x.v <= y.v
Gt(x, y) == x.kind # "nan" /\ y.kind # "nan" /\ x.v > y.v

\* x + y and x - y on numbers: nan whenever an operand is nan
Add(x, y) ==
    IF x.kind = "nan" \/ y.kind = "nan" THEN NaN ELSE PyInt(x.v + y.v)
Sub(x, y) ==
    IF x.kind = "nan" \/ y.kind = "nan" THEN NaN ELSE PyInt(x.v - y.v)

\* variant: a withdrawal of the whole balance is refused too
OverdrawsInclusive(amount, bal) == ~Lt(amount, bal)

\* amount > self.balance
Overdraws(amount, bal) == Gt(amount, bal)

\* BankAccount(owner, initial_balance): __init__; a str initial balance
\* makes the comparison with 0 itself raise TypeError
BankAccount(o, ib) ==
    /\ bpc = "idle"
    /\ initial_balance' = ib
    /\ bop' = "__init__"
    /\ IF ib.kind = "str"
       THEN /\ berror' = "TypeError"
            /\ bpc' = "failed"
            /\ UNCHANGED <<owner, balance>>
       ELSE IF Lt(ib, PyInt(0))
       THEN /\ berror' = "ValueError"
            /\ bpc' = "failed"
            /\ UNCHANGED <<owner, balance>>
       ELSE /\ owner' = o
            /\ balance' = ib
            /\ berror' = "none"
            /\ bpc' = "open"
    /\ UNCHANGED bamount
    /\ UNCHANGED <<engineVars, mainVars, returned, naiveVars, fizzVars,
                   greetVars>>

\* deposit(self, amount)
deposit(amount) ==
    /\ bpc = "open"
    /\ bop' = "deposit"
    /\ bamount' = amount
    /\ IF ~isinstance_number(amount)
       THEN /\ berror' = "TypeError"
            /\ UNCHANGED balance
       ELSE IF LessEq(amount, PyInt(0))
       THEN /\ berror' = "ValueError"
            /\ UNCHANGED balance
       ELSE /\ Add(balance, amount).v <= MaxBalance
            /\ balance' = Add(balance, amount)
            /\ berror' = "none"
    /\ UNCHANGED <<bpc, owner, initial_balance>>
    /\ UNCHANGED <<engineVars, mainVars, returned, naiveVars, fizzVars,
                   greetVars>>

\* withdraw(self, amount)
withdraw(amount) ==
    /\ bpc = "open"
    /\ bop' = "withdraw"
    /\ bamount' = amount
    /\ IF ~isinstance_number(amount)
       THEN /\ berror' = "TypeError"
            /\ UNCHANGED balance
       ELSE IF LessEq(amount, PyInt(0))
       THEN /\ berror' = "ValueError"
            /\ UNCHANGED balance
       ELSE IF Overdraws(amount, balance)
       THEN /\ berror' = "InsufficientFundsError"
            /\ UNCHANGED balance
       ELSE /\ balance' = Sub(balance, amount)
            /\ berror' = "none"
    /\ UNCHANGED <<bpc, owner, initial_balance>>
    /\ UNCHANGED <<engineVars, mainVars, returned, naiveVars, fizzVars,
                   greetVars>>

-----------------------------------------------------------------------------

EngineIdle ==
    /\ pc = "idle"
    /\ count = 0
    /\ collect_stats = FALSE
    /\ primes = <<>>
    /\ active_moduli = <<>>
    /\ digits = <<>>
    /\ pending_primes = <<>>
    /\ pending_squares = <<>>
    /\ next_square_idx = 0
    /\ square_multiplies = 0
    /\ digit_increments = 0
    /\ digit_wraps = 0
    /\ zero_checks = 0
    /\ n = 0
    /\ outcome = "none"
    /\ ret_primes = <<>>
    /\ ret_stats = EmptyStats
    /\ returned = {}

MainIdle ==
    /\ mpc = "idle"
    /\ number = 0
    /\ args_stats = FALSE
    /\ exit_status = 0
    /\ message = ""

NaiveIdle ==
    /\ npc = "idle"
    /\ nv_number = 0
    /\ nv_primes = <<>>
    /\ nv_digits = <<>>
    /\ num_primes = 0
    /\ last = 0
    /\ max_prime = 0
    /\ trial = 0
    /\ next_trial = 0
    /\ num_of_multiplies = 0
    /\ num_of_increments = 0

FizzIdle ==
    /\ fpc = "idle"
    /\ fn = 0
    /\ fresult = <<>>

GreetIdle ==
    /\ gpc = "idle"
    /\ gname = <<>>
    /\ gresult = <<>>
    /\ gerror = "none"

BankIdle ==
    /\ bpc = "idle"
    /\ owner = ""
    /\ balance = NoBalance
    /\ initial_balance = NoBalance
    /\ bop = "none"
    /\ bamount = NoBalance
    /\ berror = "none"

Init ==
    EngineIdle /\ MainIdle /\ NaiveIdle /\ FizzIdle /\ GreetIdle /\ BankIdle

Next ==
    \/ \E c \in Counts, cs \in BOOLEAN : DirectCall(c, cs)
    \/ \E x \in Counts, s \in BOOLEAN : MainParse(x, s)
    \/ MainReject
    \/ MainCall
    \/ MainOutput
    \/ LoopTest
    \/ Advance
    \/ Wrap
    \/ Activate
    \/ PrimeTest
    \/ AppendPrime
    \/ Finish

Spec == Init /\ [][Next]_vars

\* repeated calls of generate_primes_rns by one caller
NextCalls ==
    \/ \E c \in CallCounts, cs \in BOOLEAN : DirectCall(c, cs)
    \/ Observe
    \/ LoopTest
    \/ Advance
    \/ Wrap
    \/ Activate
    \/ PrimeTest
    \/ AppendPrime
    \/ Finish

SpecCalls == Init /\ [][NextCalls]_vars

\* the engine, then the naive script, for the same count
NextCross ==
    \/ \E c \in CrossCounts : DirectCall(c, FALSE)
    \/ LoopTest
    \/ Advance
    \/ Wrap
    \/ Activate
    \/ PrimeTest
    \/ AppendPrime
    \/ Finish
    \/ CrossNaive
    \/ NaiveWhile
    \/ NaiveFor
    \/ NaiveBody
    \/ NaiveAfter

SpecCross == Init /\ [][NextCross]_vars

\* the same programs with the interpreter always executing the next
\* statement of the running program: the setting of the termination claims
SpecCrossLive == SpecCross /\ WF_vars(NextCross)

\* fizzbuzz applied to each input
InitFizz ==
    /\ EngineIdle /\ MainIdle /\ NaiveIdle /\ GreetIdle /\ BankIdle
    /\ fpc = "call"
    /\ fn \in FizzInputs
    /\ fresult = <<>>

NextFizz == FizzCall

SpecFizz == InitFizz /\ [][NextFizz]_vars

\* greet applied to each name
InitGreet ==
    /\ EngineIdle /\ MainIdle /\ NaiveIdle /\ FizzIdle /\ BankIdle
    /\ gpc = "call"
    /\ gname \in Names
    /\ gresult = <<>>
    /\ gerror = "none"

NextGreet == GreetCall

SpecGreet == InitGreet /\ [][NextGreet]_vars

\* one account: its construction, then deposits and withdrawals in any order
NextBank ==
    \/ \E o \in Owners, ib \in InitialBalances : BankAccount(o, ib)
    \/ \E amount \in Amounts : deposit(amount)
    \/ \E amount \in Amounts : withdraw(amount)

SpecBank == Init /\ [][NextBank]_vars

-----------------------------------------------------------------------------
(* Helpers of the properties: primality by trial division, independent of  *)
(* the sieve.                                                              *)

IsPrime(x) == x >= 2 /\ \A d \in 2 .. (x - 1) : x % d # 0

IsFirstPrimes(s, k) ==
    /\ Len(s) = k
    /\ s[1] = 2
    /\ \A i \in 1 .. (k - 1) : s[i] < s[i + 1]
    /\ \A i \in 1 .. k : IsPrime(s[i])
    /\ \A x \in 2 .. s[k] : IsPrime(x) => \E i \in 1 .. k : s[i] = x

IsPrefix(s, t) == Len(s) <= Len(t) /\ \A i \in 1 .. Len(s) : s[i] = t[i]

-----------------------------------------------------------------------------
(* Properties                                                              *)

\* C1: for every count >= 1, generate_primes_rns(count) returns exactly
\* count integers, strictly increasing, starting with 2, all prime and with
\* no prime skipped: the first count primes.
C1_FirstPrimes ==
    (pc = "done" /\ count >= 1) => IsFirstPrimes(ret_primes, count)

C1_Witness ==
    /\ pc = "done"
    /\ count = 10
    /\ ret_primes = <<2, 3, 5, 7, 11, 13, 17, 19, 23, 29>>

\* C3: once a candidate n has been advanced, wrapped and its activations
\* done, every tracked digit equals n mod its modulus, computed with %.
C3_ResidueInvariant ==
    (pc \in {"test", "append", "loop", "finish"}) =>
        /\ Len(digits) = Len(active_moduli)
        /\ \A k \in 1 .. Len(digits) : digits[k] = n % active_moduli[k]

C3_Witness ==
    /\ pc = "loop"
    /\ n = 51
    /\ active_moduli = <<3, 5, 7>>
    /\ digits = <<0, 1, 2>>
    /\ digit_wraps > 0

\* C4 (as stated): a call with count = 0 or a negative count ends in an
\* InvalidCountError outcome instead of a normal return.
C4_Original ==
    (pc # "idle" /\ count < 1) => outcome = "InvalidCountError"

\* C4 (amended): a call with count < 1 returns normally, at once, the empty
\* sequence and an empty stats dict; nothing is computed and nothing is raised.
C4_EmptyReturn ==
    (pc # "idle" /\ count < 1) =>
        /\ pc = "done"
        /\ outcome = "return"
        /\ ret_primes = <<>>
        /\ ret_stats = EmptyStats
        /\ primes = <<>> /\ digits = <<>> /\ pending_primes = <<>>
        /\ zero_checks = 0 /\ n = 0

C4_Witness ==
    /\ pc = "done"
    /\ count = 0
    /\ outcome = "return"
    /\ ret_primes = <<>>

\* C5 (as stated): a call with a count above the ceiling 1,000,000,000 ends
\* in InvalidCountError before any scan iteration: the engine rejects it.
C5_Original ==
    (pc # "idle" /\ count > 1000000000) =>
        /\ outcome = "InvalidCountError"
        /\ zero_checks = 0

\* C5 (amended): the engine has no ceiling: called with a count above
\* 1,000,000,000 it raises nothing, seeds [2] and scans like for any count
\* >= 2; only main() rejects such a count, and then the engine is not called.
C5_NoEngineCeiling ==
    /\ (pc # "idle" /\ count > 1000000000) =>
          /\ mpc = "idle"
          /\ outcome = "none"
          /\ pc \in {"loop", "advance", "wrap", "activate", "test", "append"}
          /\ Len(primes) >= 1 /\ primes[1] = 2
          /\ \A i \in 1 .. Len(primes) : IsPrime(primes[i])
    /\ (mpc # "idle" /\ number > 1000000000) =>
          /\ pc = "idle"
          /\ mpc \in {"check", "exited"}
          /\ mpc = "exited" => exit_status = 1

C5_Witness ==
    /\ count = 1000000001
    /\ pc = "loop"
    /\ zero_checks = 5
    /\ primes = <<2, 3, 5, 7, 11>>

\* C8: generate_primes_rns(1) returns [2] and four zero counters, without a
\* scan iteration: no candidate visited, no residue, no pending entry.
C8_CountOne ==
    (pc # "idle" /\ count = 1) =>
        /\ pc = "done"
        /\ outcome = "return"
        /\ ret_primes = <<2>>
        /\ DOMAIN ret_stats = {"square_multiplies", "digit_increments",
                               "digit_wraps", "zero_checks"}
        /\ \A k \in DOMAIN ret_stats : ret_stats[k] = 0
        /\ n = 0 /\ zero_checks = 0
        /\ digits = <<>> /\ active_moduli = <<>>
        /\ pending_primes = <<>> /\ pending_squares = <<>>

C8_Witness ==
    /\ pc = "done"
    /\ count = 1
    /\ ret_primes = <<2>>
    /\ ret_stats.zero_checks = 0

C2_Original ==
    (pc = "done" /\ npc = "end" /\ nv_number = count) => nv_primes = ret_primes

\* C6: for n >= 1 and k >= 0, what generate_primes_rns(n) returned is a
\* prefix of what generate_primes_rns(n + k) returned.
C6_Prefix ==
    \A r1 \in returned, r2 \in returned :
        (r1[1] >= 1 /\ r1[1] <= r2[1]) => IsPrefix(r1[2], r2[2])

C6_Witness ==
    /\ <<3, <<2, 3, 5>>>> \in returned
    /\ <<6, <<2, 3, 5, 7, 11, 13>>>> \in returned
    /\ <<1, <<2>>>> \in returned

\* C7: a call that starts the scan starts from fresh state (sequence [2],
\* no residue, no pending entry, cursor 1), and a call that returns returns
\* what every earlier call with the same count returned, whatever calls were
\* made in between.
C7_Idempotent ==
    [][/\ (pc = "idle" /\ pc' = "loop") =>
              /\ primes' = <<2>>
              /\ active_moduli' = <<>> /\ digits' = <<>>
              /\ pending_primes' = <<>> /\ pending_squares' = <<>>
              /\ next_square_idx' = 0
              /\ n' = 1
       /\ (pc' = "done") =>
              \A r \in returned : r[1] = count' => r[2] = ret_primes'
       /\ \A r1 \in returned', r2 \in returned' :
              r1[1] = r2[1] => r1[2] = r2[2]]_vars

C7_Witness ==
    /\ pc = "done"
    /\ count = 4
    /\ ret_primes = <<2, 3, 5, 7>>
    /\ <<4, <<2, 3, 5, 7>>>> \in returned
    /\ <<6, <<2, 3, 5, 7, 11, 13>>>> \in returned
    /\ <<0, <<>>>> \in returned

\* the value of a decimal digit character, 10 for any other character
CharValue(c) ==
    CASE c = "0" -> 0 [] c = "1" -> 1 [] c = "2" -> 2 [] c = "3" -> 3
      [] c = "4" -> 4 [] c = "5" -> 5 [] c = "6" -> 6 [] c = "7" -> 7
      [] c = "8" -> 8 [] c = "9" -> 9 [] OTHER -> 10

\* the number a digit string denotes (Horner)
RECURSIVE DecValue(_)
DecValue(s) ==
    IF Len(s) = 0 THEN 0
    ELSE 10 * DecValue(SubSeq(s, 1, Len(s) - 1)) + CharValue(s[Len(s)])

\* s is the decimal representation of the positive integer x
IsDecimalOf(s, x) ==
    /\ Len(s) >= 1
    /\ \A i \in 1 .. Len(s) : CharValue(s[i]) < 10
    /\ s[1] # "0"
    /\ DecValue(s) = x

Divides(d, x) == \E q \in 0 .. x : d * q = x

\* C10: for n >= 1, fizzbuzz(n) is "FizzBuzz" when 3 and 5 both divide n,
\* "Fizz" when only 3 does, "Buzz" when only 5 does, and otherwise the
\* decimal representation of n.
C10_FizzBuzz ==
    (fpc = "ret" /\ fn >= 1) =>
        /\ (Divides(3, fn) /\ Divides(5, fn)) =>
               fresult = <<"F", "i", "z", "z", "B", "u", "z", "z">>
        /\ (Divides(3, fn) /\ ~Divides(5, fn)) =>
               fresult = <<"F", "i", "z", "z">>
        /\ (Divides(5, fn) /\ ~Divides(3, fn)) =>
               fresult = <<"B", "u", "z", "z">>
        /\ (~Divides(3, fn) /\ ~Divides(5, fn)) => IsDecimalOf(fresult, fn)

C10_Witness ==
    /\ fpc = "ret"
    /\ fn = 45
    /\ fresult = <<"F", "i", "z", "z", "B", "u", "z", "z">>

\* C11 (as stated): greet(name) raises a ValueError-kind error exactly when
\* name is empty, and otherwise returns "Hello, X!" where X is the name with
\* its first letter capitalised (the other letters as they were).
C11_Original ==
    (gpc = "ret") =>
        /\ IsValueError(gerror) <=> (gname = <<>>)
        /\ (gname # <<>>) =>
              gresult = <<"H", "e", "l", "l", "o", ",", " ">>
                        \o <<UpperChar(gname[1])>> \o Tail(gname) \o <<"!">>

\* C12: an odd candidate n >= 3 under test is appended to the prime sequence
\* if and only if no digit is zero after the activation step, and no digit is
\* zero if and only if n is prime (an empty digits vector included); the
\* sequence changes in no other step of the scan.
C12_PrimeDecision ==
    [][/\ (pc = "test") =>
              /\ n >= 3 /\ n % 2 = 1
              /\ (pc' = "append") <=> (\A k \in 1 .. Len(digits) : digits[k] # 0)
              /\ (\A k \in 1 .. Len(digits) : digits[k] # 0) <=> IsPrime(n)
       /\ (pc = "append") => primes' = Append(primes, n)
       /\ (pc \notin {"idle", "append"}) => primes' = primes]_vars

C12_Witness ==
    /\ pc = "test"
    /\ n = 49
    /\ digits = <<1, 4, 0>>
    /\ primes[Len(primes)] = 47

\* C13: after the single conditional subtraction of the wrap step every digit
\* is in [0, modulus); between the += step and the wrap a digit is below
\* twice its modulus, so one subtraction is enough.
C13_DigitsInRange ==
    /\ Len(digits) = Len(active_moduli)
    /\ (pc # "wrap") =>
          \A k \in 1 .. Len(digits) :
              0 <= digits[k] /\ digits[k] < active_moduli[k]
    /\ (pc = "wrap") =>
          \A k \in 1 .. Len(digits) :
              /\ step <= digits[k]
              /\ digits[k] - active_moduli[k] < active_moduli[k]

C13_Witness ==
    /\ pc = "activate"
    /\ n = 25
    /\ active_moduli = <<3>>
    /\ digits = <<1>>
    /\ digit_wraps > 0

\* C14: a pending prime p >= 3 is moved into the active moduli at most once,
\* in the step whose candidate n equals p*p, with digit 0; the activation
\* loop is never left with a pending square at or below n.
C14_ActivationAtSquare ==
    [][/\ (pc # "idle" /\ next_square_idx' # next_square_idx) =>
              /\ pc = "activate"
              /\ next_square_idx < Len(pending_primes)
              /\ next_square_idx' = next_square_idx + 1
              /\ pending_primes[next_square_idx + 1] >= 3
              /\ n = pending_primes[next_square_idx + 1]
                       * pending_primes[next_square_idx + 1]
              /\ active_moduli' =
                     Append(active_moduli, pending_primes[next_square_idx + 1])
              /\ digits' = Append(digits, 0)
              /\ \A k \in 1 .. Len(active_moduli) :
                     active_moduli[k] # pending_primes[next_square_idx + 1]
       /\ (pc # "idle" /\ active_moduli' # active_moduli) =>
              next_square_idx' # next_square_idx
       /\ (pc = "activate" /\ pc' = "test") =>
              \A i \in (next_square_idx + 1) .. Len(pending_squares) :
                  pending_squares[i] > n]_vars

C14_Witness ==
    /\ pc = "test"
    /\ n = 25
    /\ next_square_idx = 2
    /\ active_moduli = <<3, 5>>
    /\ digits = <<1, 0>>

\* C15: after a candidate n is processed the active moduli are exactly the
\* discovered odd primes p with p*p <= n, in ascending order, 2 is never
\* one of them, there are at most as many as there are primes <= sqrt(n),
\* and next_square_idx is their number.
C15_ActiveUpToSqrt ==
    (pc \in {"test", "append", "loop", "finish"}) =>
        /\ next_square_idx = Len(active_moduli)
        /\ \A k \in 1 .. Len(active_moduli) :
               /\ active_moduli[k] # 2
               /\ active_moduli[k] = pending_primes[k]
               /\ k > 1 => active_moduli[k - 1] < active_moduli[k]
        /\ {active_moduli[k] : k \in 1 .. Len(active_moduli)} =
               {primes[i] : i \in {j \in 1 .. Len(primes) :
                                      primes[j] >= 3 /\ primes[j] * primes[j] <= n}}
        /\ Len(active_moduli) <=
               Cardinality({x \in 2 .. n : IsPrime(x) /\ x * x <= n})

C15_Witness ==
    /\ pc = "loop"
    /\ n = 51
    /\ active_moduli = <<3, 5, 7>>
    /\ Len(primes) = 15

\* C16: in every reachable state the pending list is strictly ascending by
\* square, so each pushed square is above every square already there, and
\* pending_squares[i] is the square of pending_primes[i].
C16_PendingSorted ==
    /\ Len(pending_primes) = Len(pending_squares)
    /\ \A i \in 1 .. Len(pending_squares) :
           pending_squares[i] = pending_primes[i] * pending_primes[i]
    /\ \A i \in 1 .. Len(pending_squares) :
           \A j \in (i + 1) .. Len(pending_squares) :
               pending_squares[i] < pending_squares[j]

C16_Witness ==
    /\ pc = "loop"
    /\ pending_primes = <<3, 5, 7, 11>>
    /\ pending_squares = <<9, 25, 49, 121>>

\* C17: digits and active_moduli have the same length in every state, and
\* within a call both only grow: a step leaves the moduli as they are or
\* appends one, larger than all before, together with one digit, and that
\* step is an activation.
C17_SameLengthGrowOnly ==
    [][/\ Len(digits) = Len(active_moduli)
       /\ Len(digits') = Len(active_moduli')
       /\ (pc # "idle") =>
              /\ IsPrefix(active_moduli, active_moduli')
              /\ Len(active_moduli') <= Len(active_moduli) + 1
              /\ Len(active_moduli') = Len(active_moduli) + 1 =>
                     /\ pc = "activate"
                     /\ SubSeq(digits', 1, Len(digits)) = digits
                     /\ \A k \in 1 .. Len(active_moduli) :
                            active_moduli[k] < active_moduli'[Len(active_moduli')]
       ]_vars

C17_Witness ==
    /\ pc = "loop"
    /\ n = 49
    /\ Len(active_moduli) = 3
    /\ Len(digits) = 3

\* the odd primes whose square lies below the candidate c: the moduli that
\* are active when c is advanced, before c's own activation step
ActiveBefore(c) == {p \in 3 .. c : IsPrime(p) /\ p * p < c}

\* the moduli whose residue, advanced from candidate c - 2 by 2, reaches or
\* exceeds the modulus
WrappedAt(c) == {p \in ActiveBefore(c) : ((c - 2) % p) + 2 >= p}

RECURSIVE ExpectedIncrements(_)
ExpectedIncrements(c) ==
    IF c < 3 THEN 0 ELSE Cardinality(ActiveBefore(c)) + ExpectedIncrements(c - 2)

RECURSIVE ExpectedWraps(_)
ExpectedWraps(c) ==
    IF c < 3 THEN 0 ELSE Cardinality(WrappedAt(c)) + ExpectedWraps(c - 2)

\* C18: for count >= 2 with stats requested the returned counters are the
\* event counts of the run: zero_checks = (max_prime - 1) / 2,
\* square_multiplies = count - 1, digit_increments = the sum over the visited
\* candidates of the moduli active before the candidate's activation,
\* digit_wraps = the number of (candidate, modulus) pairs whose advanced
\* digit reached its modulus, and digit_wraps <= digit_increments.
C18_StatsAreEventCounts ==
    (pc = "done" /\ collect_stats /\ count >= 2) =>
        /\ ret_stats.max_prime = ret_primes[Len(ret_primes)]
        /\ 2 * ret_stats.zero_checks = ret_stats.max_prime - 1
        /\ ret_stats.square_multiplies = count - 1
        /\ ret_stats.digit_increments = ExpectedIncrements(ret_stats.max_prime)
        /\ ret_stats.digit_wraps = ExpectedWraps(ret_stats.max_prime)
        /\ ret_stats.digit_wraps <= ret_stats.digit_increments

C18_Witness ==
    /\ pc = "done"
    /\ collect_stats
    /\ count = 20
    /\ ret_stats.max_prime = 71
    /\ ret_stats.zero_checks = 35
    /\ ret_stats.square_multiplies = 19
    /\ ret_stats.digit_wraps > 0
    /\ ret_stats.digit_wraps < ret_stats.digit_increments

\* C19 (as stated): for every accepted count >= 1 with stats requested the
\* returned record holds the multiplications, the digit increments, the digit
\* wraps, the zero-checks, the final active-modulus count and the maximum
\* prime, the last being the last element of the returned sequence; with
\* stats not requested no counter is returned.
C19_Original ==
    (pc = "done" /\ count >= 1 /\ count <= 1000000000) =>
        /\ collect_stats =>
              /\ {"square_multiplies", "digit_increments", "digit_wraps",
                  "zero_checks", "active_moduli_final", "max_prime"}
                     \subseteq DOMAIN ret_stats
              /\ ret_stats.max_prime = ret_primes[Len(ret_primes)]
        /\ (~collect_stats) => DOMAIN ret_stats = {}

\* C20 (as stated): in the naive script, once a trial value has been
\* processed (digits += 1, then wrap_digits, then the possible new entry),
\* every digit equals trial mod its prime.
C20_Original ==
    (npc \in {"for", "after"} /\ trial >= 3) =>
        /\ Len(nv_digits) = Len(nv_primes)
        /\ \A k \in 1 .. Len(nv_digits) : nv_digits[k] = trial % nv_primes[k]

\* C21 (as stated): the naive script stops with exactly `number` primes
\* recorded: when its loops have exited, num_primes equals number and the
\* primes array has exactly number entries, for every number >= 1.
C21_Original ==
    (npc = "end" /\ nv_number >= 1) =>
        /\ num_primes = nv_number
        /\ Len(nv_primes) = nv_number

\* C22: the naive script's nested loops terminate for every number >= 1.
\* Every pass of the outer while loop has recorded a new prime by the time
\* the for loop is left, so the last prime is no longer the one whose square
\* bounds the pass and the next pass has a new, larger bound; and a script
\* that has reached its while test always goes on to leave the loops.
C22_Terminates ==
    /\ [](npc = "after" =>
             /\ RangeStart(last) < max_prime
             /\ nv_primes[Len(nv_primes)] * nv_primes[Len(nv_primes)] > max_prime
             /\ nv_primes[Len(nv_primes)] >= RangeStart(last))
    /\ ((npc = "while" /\ nv_number >= 1) ~> (npc = "end"))

\* the third pass of the script run for twelve primes has scanned its whole
\* range [9, 49) and recorded primes in it
C22_Witness ==
    /\ npc = "after"
    /\ nv_number = 12
    /\ num_of_multiplies = 3
    /\ max_prime = 49
    /\ next_trial >= max_prime
    /\ num_primes > 3

\* C23: the two fixed-width (np.int64) arrays of generate_primes_rns hold
\* small values only.  At every point of the scan every value of
\* active_moduli is a prime p with p*p <= n, and every value of digits,
\* the transient one between the += 2 and the wrap included, lies between 0
\* and active_moduli[k] + 1; so a stored value never exceeds the square
\* root of the candidate plus one, and no square (the squares live in the
\* unbounded list pending_squares) is ever written to either array.
C23_ArraysStaySmall ==
    /\ Len(digits) = Len(active_moduli)
    /\ \A k \in 1 .. Len(active_moduli) :
          /\ IsPrime(active_moduli[k])
          /\ active_moduli[k] * active_moduli[k] <= n
          /\ digits[k] >= 0
          /\ digits[k] <= active_moduli[k] + 1
          /\ \A j \in 1 .. Len(pending_squares) :
                active_moduli[k] # pending_squares[j]

\* between the += 2 and the wrap, with the moduli 3, 5 and 7 active, a
\* digit holds its modulus plus one
C23_Witness ==
    /\ pc = "wrap"
    /\ active_moduli = <<3, 5, 7>>
    /\ \E k \in 1 .. Len(digits) : digits[k] = active_moduli[k] + 1

\* C24: in generate_primes_rns the prime sequence is append-only.  Every
\* step of a running call leaves primes unchanged or extends it by exactly
\* one element, the current candidate n, at its tail, so the earlier value
\* is a prefix of the later one; and the step that leaves the loop does so
\* with the length of primes equal to count.
C24_AppendOnly ==
    [][(pc \notin {"idle", "done"}) =>
          /\ \/ primes' = primes
             \/ primes' = Append(primes, n) /\ n' = n
          /\ IsPrefix(primes, primes')
          /\ (pc = "loop" /\ pc' = "finish") => Len(primes') = count
          /\ (pc = "finish") => ret_primes' = primes /\ Len(ret_primes') = count
      ]_vars

\* a call for seven primes has left its loop holding 2 .. 17
C24_Witness ==
    /\ pc = "finish"
    /\ count = 7
    /\ primes = <<2, 3, 5, 7, 11, 13, 17>>

\* C25 (as stated): a BankAccount created with a non-negative initial
\* balance has a balance >= 0 after any sequence of deposit and withdraw
\* calls, whether each call succeeds or raises; construction with a negative
\* initial balance raises ValueError and yields no account.
C25_Original ==
    /\ (bpc = "open" /\ LessEq(PyInt(0), initial_balance)) =>
           LessEq(PyInt(0), balance)
    /\ (bop = "__init__" /\ Lt(initial_balance, PyInt(0))) =>
           /\ bpc = "failed"
           /\ berror = "ValueError"
           /\ balance = NoBalance

\* C26: a deposit or withdraw call that raises leaves the balance unchanged,
\* and it raises TypeError exactly for a non-numeric amount, ValueError
\* exactly for a numeric amount <= 0 and InsufficientFundsError exactly for
\* a withdrawal of a positive amount greater than the balance; every other
\* call succeeds, a deposit adding exactly amount to the balance and a
\* withdrawal (any 0 < amount <= balance) subtracting exactly amount.
C26_RaiseOrApply ==
    [][(bpc = "open" /\ bop' \in {"deposit", "withdraw"}) =>
          LET a == bamount'
              plain(x) == x.kind \in {"int", "bool"}
          IN  /\ (berror' = "TypeError") <=> (a.kind = "str")
              /\ (berror' = "ValueError") <=> (plain(a) /\ a.v <= 0)
              /\ (berror' = "InsufficientFundsError") <=>
                     /\ bop' = "withdraw"
                     /\ plain(a) /\ plain(balance)
                     /\ a.v > 0 /\ a.v > balance.v
              /\ berror' \in {"none", "TypeError", "ValueError",
                               "InsufficientFundsError"}
              /\ (berror' # "none") => balance' = balance
              /\ (berror' = "none" /\ plain(a) /\ plain(balance)) =>
                     /\ balance'.kind = "int"
                     /\ bop' = "deposit" => balance'.v = balance.v + a.v
                     /\ bop' = "withdraw" =>
                            /\ balance'.v = balance.v - a.v
                            /\ 0 < a.v /\ a.v <= balance.v
              /\ (berror' = "none" /\ ~(plain(a) /\ plain(balance))) =>
                     balance'.kind = "nan"
      ]_vars

\* a withdrawal of 3 from a balance of 2 has raised InsufficientFundsError
\* and the balance is still 2
C26_Witness ==
    /\ bpc = "open"
    /\ bop = "withdraw"
    /\ bamount = PyInt(3)
    /\ berror = "InsufficientFundsError"
    /\ balance = PyInt(2)

====
